---------------------------- MODULE Spec2Model ----------------------------
(***************************************************************************)
(* Light State Management: the LightStateManager of src/__init__.py as a  *)
(* state machine.  The manager owns a snapshot store (_states) and a      *)
(* motion-activity map (_motion_active); the host platform delivers       *)
(* service calls, timer ticks, state-change events and driver             *)
(* acknowledgments.  Every handler body is one atomic step, except        *)
(* _handle_restore_state, which suspends at each awaited light.turn_on.   *)
(*                                                                         *)
(* Entity identifiers are sequences of characters so that                 *)
(* str.startswith("light.") is computed, not assumed.  Python dicts are   *)
(* functions whose DOMAIN is the set of keys present.  The variables      *)
(* last, fired and called observe the step just taken: its stimulus, the  *)
(* bus events it fired and the driver calls it issued, in order.          *)
(***************************************************************************)
EXTENDS Integers, Sequences, FiniteSets, TLC

VARIABLES
    entry,                  \* self.entry.data (read-only configuration)
    states,                 \* self._states
    motion_active,          \* self._motion_active
    cancel_save_interval,   \* self._cancel_save_interval is not None
    setup_complete,         \* self._setup_complete
    services,               \* services registered with the host
    listening,              \* handle_motion subscribed to EVENT_STATE_CHANGED
    timers,                 \* recurring timers registered with the host
    unloaded,               \* async_unload has run
    ticks,                  \* _handle_interval_save calls the host has yet to run
    host,                   \* hass.states: entity id -> State
    tasks,                  \* restore invocations scheduled or suspended
    last,                   \* the stimulus of the step just taken
    fired,                  \* hass.bus.fire calls of the step just taken
    called                  \* hass.services.async_call calls of that step

vars == <<entry, states, motion_active, cancel_save_interval, setup_complete,
          services, listening, timers, unloaded, ticks, host, tasks, last,
          fired, called>>

manager == <<entry, states, motion_active, cancel_save_interval,
             setup_complete, services, listening, timers, unloaded, ticks>>

----------------------------------------------------------------------------
(* Bounds of the model *)

MaxList == 2        \* longest entity_id list of a service call
MaxTasks == 2       \* restore invocations in flight at once
MaxVal == 1         \* attribute values are 1..MaxVal
MaxTicks == 1       \* timer callbacks the host has created and not yet run

----------------------------------------------------------------------------
(* src/const.py and homeassistant.const *)

CONF_LIGHTS == "lights"
CONF_MOTION_SENSORS == "motion_sensors"
CONF_TRANSITION == "transition"
CONF_SAVE_INTERVAL == "save_interval"
DEFAULT_TRANSITION == 1
DEFAULT_SAVE_INTERVAL == 300
SERVICE_SAVE_STATE == "save_state"
SERVICE_RESTORE_STATE == "restore_state"
SERVICE_CLEAR_STATES == "clear_states"
SERVICE_TURN_ON == "turn_on"
ATTR_BRIGHTNESS == "brightness"
ATTR_COLOR_TEMP == "color_temp"
ATTR_HS_COLOR == "hs_color"
ATTR_RGB_COLOR == "rgb_color"
ATTR_XY_COLOR == "xy_color"
ATTR_EFFECT == "effect"
EVENT_STATE_SAVED == "light_state_saved"
EVENT_STATE_RESTORED == "light_state_restored"
STATE_ON == "on"
STATE_OFF == "off"
STATE_UNAVAILABLE == "unavailable"

\* The attributes _get_light_state copies, in the order of its for loop.
SnapshotAttrs == <<ATTR_BRIGHTNESS, ATTR_COLOR_TEMP, ATTR_HS_COLOR,
                   ATTR_RGB_COLOR, ATTR_XY_COLOR, ATTR_EFFECT>>

----------------------------------------------------------------------------
(* Python helpers *)

Range(s) == {s[i] : i \in 1..Len(s)}

\* dict.get(key, default)
Get(d, k, default) == IF k \in DOMAIN d THEN d[k] ELSE default

\* d[k] = v on a dict
Put(d, k, v) == [x \in DOMAIN d \cup {k} |-> IF x = k THEN v ELSE d[x]]

\* d.pop(k, None)
Pop(d, k) == [x \in DOMAIN d \ {k} |-> d[x]]

\* d.update(e)
Update(d, e) == [x \in DOMAIN d \cup DOMAIN e |-> IF x \in DOMAIN e THEN e[x] ELSE d[x]]

\* str.startswith
StartsWith(s, prefix) ==
    /\ Len(s) >= Len(prefix)
    /\ \A i \in 1..Len(prefix) : s[i] = prefix[i]

LightPrefix == <<"l", "i", "g", "h", "t", ".">>

EmptyDict == [x \in {} |-> 0]


\* Python's None (hass.states.get of an unknown entity, a removed new_state)
None == [none |-> TRUE]

----------------------------------------------------------------------------
(* The host's entities *)

light_kitchen == <<"l", "i", "g", "h", "t", ".", "k">>
light_hall == <<"l", "i", "g", "h", "t", ".", "h">>
switch_x == <<"s", "w", "i", "t", "c", "h", ".", "x">>
sensor_a == <<"b", "i", "n", "a", "r", "y", "_", "s", "e", "n", "s", "o", "r", ".", "a">>
sensor_b == <<"b", "i", "n", "a", "r", "y", "_", "s", "e", "n", "s", "o", "r", ".", "b">>
sensor_c == <<"b", "i", "n", "a", "r", "y", "_", "s", "e", "n", "s", "o", "r", ".", "c">>

Lights == {light_kitchen, light_hall}
\* Entities a service call may name; the host tracks a State for each.
CallableIds == Lights \cup {switch_x}
Sensors == {sensor_a, sensor_b, sensor_c}

\* Sequences over S of length at most n
RECURSIVE SeqsUpTo(_, _)
SeqsUpTo(S, n) ==
    IF n = 0 THEN {<<>>}
    ELSE LET shorter == SeqsUpTo(S, n - 1)
         IN  shorter \cup {Append(s, x) : s \in {t \in shorter : Len(t) = n - 1}, x \in S}

\* call.data[ATTR_ENTITY_ID] of a service call (cv.entity_ids: a list)
EntityIdLists == SeqsUpTo(CallableIds, MaxList)

\* Attribute dicts over the attribute names A with values 1..MaxVal
AttrDicts(A) == UNION {[K -> 1..MaxVal] : K \in SUBSET A}

\* A homeassistant.core.State
State(s, attrs) == [state |-> s, attributes |-> attrs]

----------------------------------------------------------------------------
(* LightStateManager._get_light_state *)

RECURSIVE CopyAttrs(_, _, _)
CopyAttrs(data, attrs, i) ==
    IF i > Len(SnapshotAttrs) THEN data
    ELSE LET attr == SnapshotAttrs[i]
         IN  IF attr \in DOMAIN attrs
             THEN CopyAttrs(Put(data, attr, attrs[attr]), attrs, i + 1)
             ELSE CopyAttrs(data, attrs, i + 1)

get_light_state(state) ==
    CopyAttrs([k \in {"state"} |-> state.state], state.attributes, 1)

----------------------------------------------------------------------------
(* LightStateManager._handle_save_state *)

\* hass.states.get(entity_id)
states_get(entity_id) ==
    IF entity_id \in DOMAIN host THEN host[entity_id] ELSE None

\* fault: the namespace check is missing
SaveSkips_NoPrefixCheck(entity_id) == states_get(entity_id) = None

\* the two `continue` conditions of the save loop
SaveSkips(entity_id) ==
    \/ ~StartsWith(entity_id, LightPrefix)
    \/ states_get(entity_id) = None

Event(type, entity_id, state_data) ==
    [event_type |-> type,
     data |-> [entity_id |-> entity_id, state |-> state_data]]

\* fault: a skipped identifier ends the loop (return for continue)
RECURSIVE SaveLoop_ReturnOnSkip(_, _, _, _)
SaveLoop_ReturnOnSkip(entity_ids, i, st, ev) ==
    IF i > Len(entity_ids) THEN [states |-> st, fired |-> ev]
    ELSE LET entity_id == entity_ids[i]
         IN  IF SaveSkips(entity_id)
             THEN [states |-> st, fired |-> ev]
             ELSE LET st2 == Put(st, entity_id, get_light_state(states_get(entity_id)))
                  IN  SaveLoop_ReturnOnSkip(entity_ids, i + 1, st2,
                               Append(ev, Event(EVENT_STATE_SAVED, entity_id, st2[entity_id])))

\* fault: a save merges into the snapshot already stored
\* (self._states.setdefault(entity_id, {}).update(...))
RECURSIVE SaveLoop_Merges(_, _, _, _)
SaveLoop_Merges(entity_ids, i, st, ev) ==
    IF i > Len(entity_ids) THEN [states |-> st, fired |-> ev]
    ELSE LET entity_id == entity_ids[i]
         IN  IF SaveSkips(entity_id)
             THEN SaveLoop_Merges(entity_ids, i + 1, st, ev)
             ELSE LET st2 == Put(st, entity_id,
                                 Update(Get(st, entity_id, EmptyDict),
                                        get_light_state(states_get(entity_id))))
                  IN  SaveLoop_Merges(entity_ids, i + 1, st2,
                               Append(ev, Event(EVENT_STATE_SAVED, entity_id, st2[entity_id])))

\* the for loop from position i on: the store and the events fired so far
RECURSIVE SaveLoop(_, _, _, _)
SaveLoop(entity_ids, i, st, ev) ==
    IF i > Len(entity_ids) THEN [states |-> st, fired |-> ev]
    ELSE LET entity_id == entity_ids[i]
         IN  IF SaveSkips(entity_id)
             THEN SaveLoop(entity_ids, i + 1, st, ev)
             ELSE LET st2 == Put(st, entity_id, get_light_state(states_get(entity_id)))
                  IN  SaveLoop(entity_ids, i + 1, st2,
                               Append(ev, Event(EVENT_STATE_SAVED, entity_id, st2[entity_id])))

save_state(entity_ids) == SaveLoop(entity_ids, 1, states, <<>>)

\* the save_state service called with entity_ids
handle_save_state(entity_ids) ==
    /\ SERVICE_SAVE_STATE \in services
    /\ states' = save_state(entity_ids).states
    /\ fired' = save_state(entity_ids).fired
    /\ called' = <<>>
    /\ last' = [op |-> SERVICE_SAVE_STATE, entity_ids |-> entity_ids]
    /\ UNCHANGED <<entry, motion_active, cancel_save_interval, setup_complete,
                   services, listening, timers, unloaded, ticks, host, tasks>>

----------------------------------------------------------------------------
(* LightStateManager._handle_restore_state *)

\* fault: the captured state is read from the host, not from the snapshot
RestoreSkips_LiveState(st, entity_id) ==
    \/ entity_id \notin DOMAIN st
    \/ states_get(entity_id) = None
    \/ states_get(entity_id).state # STATE_ON

\* fault: the captured state is not looked at
RestoreSkips_NoStateCheck(st, entity_id) == entity_id \notin DOMAIN st

\* the two `continue` conditions of the restore loop, on the store st
RestoreSkips(st, entity_id) ==
    \/ entity_id \notin DOMAIN st
    \/ st[entity_id]["state"] # STATE_ON

\* self.entry.data.get(CONF_TRANSITION, DEFAULT_TRANSITION)
Transition == Get(entry, CONF_TRANSITION, DEFAULT_TRANSITION)

\* fault: the filter `if k != "state"` is missing
ServiceData_KeepsState(entity_id, state_data, transition) ==
    Update([entity_id |-> entity_id, transition |-> transition], state_data)

\* service_data: entity_id and transition, updated with the snapshot's
\* items other than "state"
ServiceData(entity_id, state_data, transition) ==
    Update([entity_id |-> entity_id, transition |-> transition],
           [k \in DOMAIN state_data \ {"state"} |-> state_data[k]])

\* hass.services.async_call("light", SERVICE_TURN_ON, service_data, blocking=True)
Call(service_data) ==
    [domain |-> "light", service |-> SERVICE_TURN_ON, service_data |-> service_data]

\* the first position from i on that the loop does not skip; 0 when the
\* loop runs to its end
RECURSIVE NextRestorable(_, _, _)
NextRestorable(entity_ids, i, st) ==
    IF i > Len(entity_ids) THEN 0
    ELSE IF RestoreSkips(st, entity_ids[i])
         THEN NextRestorable(entity_ids, i + 1, st)
         ELSE i

\* A restore invocation: scheduled by async_create_task and not started
\* (rest: its whole list), or suspended at the await for entity_id with its
\* local state_data (rest: the identifiers the for loop has yet to take).
Scheduled(entity_ids) ==
    [status |-> "scheduled", entity_id |-> <<>>, state_data |-> EmptyDict,
     rest |-> entity_ids]

Awaiting(entity_id, state_data, rest) ==
    [status |-> "awaiting", entity_id |-> entity_id, state_data |-> state_data,
     rest |-> rest]

\* s[i + 1 ..]
After(s, i) == SubSeq(s, i + 1, Len(s))

RemoveAt(s, k) == [j \in 1..(Len(s) - 1) |-> IF j < k THEN s[j] ELSE s[j + 1]]

\* fault: the turn_on calls are not awaited: the loop issues the call of
\* every identifier it does not skip and returns
RestoreRun_NoAwait(k, entity_ids) ==
    LET ok == SelectSeq(entity_ids, LAMBDA e : ~RestoreSkips(states, e))
    IN  /\ tasks' = IF k = 0 THEN tasks ELSE RemoveAt(tasks, k)
        /\ called' = [i \in 1..Len(ok) |->
                         Call(ServiceData(ok[i], states[ok[i]], Transition))]

\* fault: an identifier without a snapshot is restored as
\* self._states.get(entity_id, {"state": STATE_ON})
RestoreRun_DefaultSnapshot(k, entity_ids) ==
    LET default == [x \in {"state"} |-> STATE_ON]
        st == [e \in DOMAIN states \cup Range(entity_ids) |-> Get(states, e, default)]
        j == NextRestorable(entity_ids, 1, st)
    IN  IF j = 0
        THEN /\ tasks' = IF k = 0 THEN tasks ELSE RemoveAt(tasks, k)
             /\ called' = <<>>
        ELSE LET entity_id == entity_ids[j]
                 state_data == st[entity_id]
                 task == Awaiting(entity_id, state_data, After(entity_ids, j))
             IN  /\ k = 0 => Len(tasks) < MaxTasks
                 /\ tasks' = IF k = 0 THEN Append(tasks, task)
                             ELSE [tasks EXCEPT ![k] = task]
                 /\ called' = <<Call(ServiceData(entity_id, state_data, Transition))>>

\* run the for loop of the invocation in slot k (0: a new invocation) over
\* entity_ids, the identifiers it has yet to take, until it suspends at a
\* turn_on or returns
RestoreRun(k, entity_ids) ==
    LET j == NextRestorable(entity_ids, 1, states)
    IN  IF j = 0
        THEN /\ tasks' = IF k = 0 THEN tasks ELSE RemoveAt(tasks, k)
             /\ called' = <<>>
        ELSE LET entity_id == entity_ids[j]
                 state_data == states[entity_id]
                 task == Awaiting(entity_id, state_data, After(entity_ids, j))
             IN  /\ k = 0 => Len(tasks) < MaxTasks
                 /\ tasks' = IF k = 0 THEN Append(tasks, task)
                             ELSE [tasks EXCEPT ![k] = task]
                 /\ called' = <<Call(ServiceData(entity_id, state_data, Transition))>>

\* the restore_state service called with entity_ids, up to its first await
handle_restore_state(entity_ids) ==
    /\ SERVICE_RESTORE_STATE \in services
    /\ RestoreRun(0, entity_ids)
    /\ fired' = <<>>
    /\ last' = [op |-> SERVICE_RESTORE_STATE, entity_ids |-> entity_ids]
    /\ UNCHANGED <<manager, host>>

\* the event loop starts the restore that _handle_motion_change scheduled
task_start(k) ==
    /\ k \in 1..Len(tasks)
    /\ tasks[k].status = "scheduled"
    /\ RestoreRun(k, tasks[k].rest)
    /\ fired' = <<>>
    /\ last' = [op |-> "task_start", entity_ids |-> tasks[k].rest]
    /\ UNCHANGED <<manager, host>>

\* fault: the restored event carries the store's snapshot of the moment
\* it is fired (self._states.get(entity_id)), not the local state_data
turn_on_done_RereadsSnapshot(k) ==
    /\ k \in 1..Len(tasks)
    /\ tasks[k].status = "awaiting"
    /\ LET t == tasks[k]
       IN  /\ fired' = <<Event(EVENT_STATE_RESTORED, t.entity_id,
                               Get(states, t.entity_id, None))>>
           /\ RestoreRun(k, t.rest)
           /\ last' = [op |-> "turn_on_done", entity_id |-> t.entity_id]
    /\ UNCHANGED <<manager, host>>

\* fault: a restored snapshot is consumed (self._states.pop(entity_id)
\* after the restored event)
turn_on_done_ConsumesSnapshot(k) ==
    /\ k \in 1..Len(tasks)
    /\ tasks[k].status = "awaiting"
    /\ LET t == tasks[k]
       IN  /\ fired' = <<Event(EVENT_STATE_RESTORED, t.entity_id, t.state_data)>>
           /\ RestoreRun(k, t.rest)
           /\ last' = [op |-> "turn_on_done", entity_id |-> t.entity_id]
           /\ states' = Pop(states, t.entity_id)
    /\ UNCHANGED <<entry, motion_active, cancel_save_interval, setup_complete,
                   services, listening, timers, unloaded, ticks, host>>

\* the driver acknowledges the turn_on that invocation k awaits: the
\* restored event is fired and the loop goes on
turn_on_done(k) ==
    /\ k \in 1..Len(tasks)
    /\ tasks[k].status = "awaiting"
    /\ LET t == tasks[k]
       IN  /\ fired' = <<Event(EVENT_STATE_RESTORED, t.entity_id, t.state_data)>>
           /\ RestoreRun(k, t.rest)
           /\ last' = [op |-> "turn_on_done", entity_id |-> t.entity_id]
    /\ UNCHANGED <<manager, host>>

\* fault: the exception is caught and the loop goes on with the next
\* identifier (try: ... except Exception: continue)
turn_on_failed_Continues(k) ==
    /\ k \in 1..Len(tasks)
    /\ tasks[k].status = "awaiting"
    /\ RestoreRun(k, tasks[k].rest)
    /\ fired' = <<>>
    /\ last' = [op |-> "turn_on_failed", entity_id |-> tasks[k].entity_id]
    /\ UNCHANGED <<manager, host>>

\* fault: a failed turn_on is issued again until it succeeds
\* (while True: try: await ... except Exception: continue)
turn_on_failed_Retries(k) ==
    /\ k \in 1..Len(tasks)
    /\ tasks[k].status = "awaiting"
    /\ tasks' = tasks
    /\ fired' = <<>>
    /\ called' = <<Call(ServiceData(tasks[k].entity_id, tasks[k].state_data, Transition))>>
    /\ last' = [op |-> "turn_on_failed", entity_id |-> tasks[k].entity_id]
    /\ UNCHANGED <<manager, host>>

\* the awaited turn_on raises: the exception leaves the invocation
turn_on_failed(k) ==
    /\ k \in 1..Len(tasks)
    /\ tasks[k].status = "awaiting"
    /\ tasks' = RemoveAt(tasks, k)
    /\ fired' = <<>>
    /\ called' = <<>>
    /\ last' = [op |-> "turn_on_failed", entity_id |-> tasks[k].entity_id]
    /\ UNCHANGED <<manager, host>>

----------------------------------------------------------------------------
(* LightStateManager._handle_clear_states *)

\* fault: the service empties the store (self._states.clear())
ClearLoop_ClearsAll(entity_ids, i, st) == EmptyDict

RECURSIVE ClearLoop(_, _, _)
ClearLoop(entity_ids, i, st) ==
    IF i > Len(entity_ids) THEN st
    ELSE ClearLoop(entity_ids, i + 1, Pop(st, entity_ids[i]))

handle_clear_states(entity_ids) ==
    /\ SERVICE_CLEAR_STATES \in services
    /\ states' = ClearLoop(entity_ids, 1, states)
    /\ fired' = <<>>
    /\ called' = <<>>
    /\ last' = [op |-> SERVICE_CLEAR_STATES, entity_ids |-> entity_ids]
    /\ UNCHANGED <<entry, motion_active, cancel_save_interval, setup_complete,
                   services, listening, timers, unloaded, ticks, host, tasks>>

----------------------------------------------------------------------------
(* LightStateManager._handle_interval_save *)

\* the gate of a handler that checks for teardown too (the code's gate
\* below does not: async_unload leaves _setup_complete set)
IntervalSaveReturns_Unloaded == ~setup_complete \/ unloaded

\* `if not self._setup_complete: return`
IntervalSaveReturns == ~setup_complete

\* the body of _handle_interval_save
interval_save ==
    /\ IF IntervalSaveReturns
       THEN UNCHANGED states /\ fired' = <<>>
       ELSE LET entity_ids == Get(entry, CONF_LIGHTS, <<>>)
            IN  /\ states' = save_state(entity_ids).states
                /\ fired' = save_state(entity_ids).fired
    /\ called' = <<>>
    /\ last' = [op |-> "interval_save"]
    /\ UNCHANGED <<entry, motion_active, cancel_save_interval, setup_complete,
                   services, listening, timers, unloaded, host, tasks>>

\* a registered recurring timer fires and the host runs the handler at once
handle_interval_save ==
    /\ Len(timers) > 0
    /\ interval_save
    /\ UNCHANGED ticks

\* a registered recurring timer fires and the host creates the task that
\* will run the handler (_handle_interval_save is a coroutine function)
interval_fired ==
    /\ Len(timers) > 0
    /\ ticks < MaxTicks
    /\ ticks' = ticks + 1
    /\ fired' = <<>>
    /\ called' = <<>>
    /\ last' = [op |-> "interval_fired"]
    /\ UNCHANGED <<entry, states, motion_active, cancel_save_interval,
                   setup_complete, services, listening, timers, unloaded, host,
                   tasks>>

\* the event loop runs a handler task created by interval_fired
interval_task_run ==
    /\ ticks > 0
    /\ ticks' = ticks - 1
    /\ interval_save

----------------------------------------------------------------------------
(* LightStateManager.async_setup.handle_motion and _handle_motion_change *)

\* any(self._motion_active.values())
AnyActive(ma) == \E s \in DOMAIN ma : ma[s]

\* `if motion_sensors := self.entry.data.get(CONF_MOTION_SENSORS)`: the
\* value is there and not empty
MotionSensorsConfigured ==
    /\ CONF_MOTION_SENSORS \in DOMAIN entry
    /\ entry[CONF_MOTION_SENSORS] # <<>>

\* fault: the check against the configured sensors is missing
MotionIgnores_AnySensor(entity_id, new_state) == new_state = None

\* the two early returns of handle_motion
MotionIgnores(entity_id, new_state) ==
    \/ entity_id \notin Range(entry[CONF_MOTION_SENSORS])
    \/ new_state = None

\* fault: active unless the sensor reports "off"
MotionUpdate_NotOff(ma, entity_id, new_state) ==
    Put(ma, entity_id, new_state.state # STATE_OFF)

\* self._motion_active[entity_id] = new_state.state == STATE_ON
MotionUpdate(ma, entity_id, new_state) ==
    Put(ma, entity_id, new_state.state = STATE_ON)

\* fault: debounced, a restore only when no sensor was active before
MotionSchedules_Debounced(ma) ==
    setup_complete /\ AnyActive(ma) /\ ~AnyActive(motion_active)

\* _handle_motion_change schedules a restore of the configured lights
MotionSchedules(ma) == setup_complete /\ AnyActive(ma)

\* fault: a notification without a new state is taken as "not on" and goes
\* on to _handle_motion_change
handle_motion_NoneIsOff(entity_id, new_state) ==
    IF entity_id \notin Range(entry[CONF_MOTION_SENSORS])
    THEN UNCHANGED <<motion_active, tasks>>
    ELSE /\ motion_active' = Put(motion_active, entity_id,
                                 new_state # None /\ new_state.state = STATE_ON)
         /\ IF MotionSchedules(motion_active')
            THEN /\ Len(tasks) < MaxTasks
                 /\ tasks' = Append(tasks, Scheduled(Get(entry, CONF_LIGHTS, <<>>)))
            ELSE UNCHANGED tasks

handle_motion(entity_id, new_state) ==
    IF MotionIgnores(entity_id, new_state)
    THEN UNCHANGED <<motion_active, tasks>>
    ELSE /\ motion_active' = MotionUpdate(motion_active, entity_id, new_state)
         /\ IF MotionSchedules(motion_active')
            THEN /\ Len(tasks) < MaxTasks
                 /\ tasks' = Append(tasks, Scheduled(Get(entry, CONF_LIGHTS, <<>>)))
            ELSE UNCHANGED tasks

\* hass.states of the entities a service call can name
HostSet(h, entity_id, new_state) ==
    IF entity_id \notin CallableIds THEN h
    ELSE IF new_state = None THEN Pop(h, entity_id)
    ELSE Put(h, entity_id, new_state)

\* the host changes the state of entity_id to new_state (None: the entity
\* is removed) and fires EVENT_STATE_CHANGED to the listeners
state_changed(entity_id, new_state) ==
    /\ host' = HostSet(host, entity_id, new_state)
    /\ IF listening
       THEN handle_motion(entity_id, new_state)
       ELSE UNCHANGED <<motion_active, tasks>>
    /\ fired' = <<>>
    /\ called' = <<>>
    /\ last' = [op |-> "state_changed", entity_id |-> entity_id, new_state |-> new_state]
    /\ UNCHANGED <<entry, states, cancel_save_interval, setup_complete,
                   services, listening, timers, unloaded, ticks>>

----------------------------------------------------------------------------
(* LightStateManager.async_setup and async_unload *)

SaveIntervalConfigured == Get(entry, CONF_SAVE_INTERVAL, DEFAULT_SAVE_INTERVAL)

\* fault: `if save_interval >= 0`
RegistersTimer_NonNegative(save_interval) == save_interval >= 0

\* `if save_interval > 0`
RegistersTimer(save_interval) == save_interval > 0

async_setup ==
    /\ ~setup_complete
    /\ ~unloaded
    /\ services' = services \cup {SERVICE_SAVE_STATE, SERVICE_RESTORE_STATE, SERVICE_CLEAR_STATES}
    /\ IF RegistersTimer(SaveIntervalConfigured)
       THEN /\ timers' = Append(timers, [interval |-> SaveIntervalConfigured])
            /\ cancel_save_interval' = TRUE
       ELSE UNCHANGED <<timers, cancel_save_interval>>
    /\ listening' = (listening \/ MotionSensorsConfigured)
    /\ setup_complete' = TRUE
    /\ fired' = <<>>
    /\ called' = <<>>
    /\ last' = [op |-> "async_setup"]
    /\ UNCHANGED <<entry, states, motion_active, unloaded, ticks, host, tasks>>

\* fault: unloading also cancels the restore invocations in flight
async_unload_CancelsRestores ==
    /\ setup_complete
    /\ ~unloaded
    /\ timers' = IF cancel_save_interval THEN <<>> ELSE timers
    /\ services' = services \ {SERVICE_SAVE_STATE, SERVICE_RESTORE_STATE, SERVICE_CLEAR_STATES}
    /\ unloaded' = TRUE
    /\ tasks' = <<>>
    /\ fired' = <<>>
    /\ called' = <<>>
    /\ last' = [op |-> "async_unload"]
    /\ UNCHANGED <<entry, states, motion_active, cancel_save_interval,
                   setup_complete, listening, ticks, host>>

async_unload ==
    /\ setup_complete
    /\ ~unloaded
    /\ timers' = IF cancel_save_interval THEN <<>> ELSE timers
    /\ services' = services \ {SERVICE_SAVE_STATE, SERVICE_RESTORE_STATE, SERVICE_CLEAR_STATES}
    /\ unloaded' = TRUE
    /\ fired' = <<>>
    /\ called' = <<>>
    /\ last' = [op |-> "async_unload"]
    /\ UNCHANGED <<entry, states, motion_active, cancel_save_interval,
                   setup_complete, listening, ticks, host, tasks>>

----------------------------------------------------------------------------
(* The configurations and host states of the model *)

\* entry.data as the config flow stores it: the optional keys may be absent
ConfigMotion ==
    [k \in {CONF_LIGHTS, CONF_MOTION_SENSORS, CONF_TRANSITION, CONF_SAVE_INTERVAL} |->
        CASE k = CONF_LIGHTS -> <<light_kitchen, light_hall>>
          [] k = CONF_MOTION_SENSORS -> <<sensor_a, sensor_b>>
          [] k = CONF_TRANSITION -> 2
          [] k = CONF_SAVE_INTERVAL -> 0]

ConfigDefaults ==
    [k \in {CONF_LIGHTS, CONF_MOTION_SENSORS} |->
        CASE k = CONF_LIGHTS -> <<light_kitchen, light_hall>>
          [] k = CONF_MOTION_SENSORS -> <<>>]

ConfigInterval ==
    [k \in {CONF_LIGHTS, CONF_SAVE_INTERVAL} |->
        CASE k = CONF_LIGHTS -> <<light_kitchen>>
          [] k = CONF_SAVE_INTERVAL -> 60]

Configs == {ConfigMotion, ConfigDefaults, ConfigInterval}

\* every State of the host carries attributes the manager does not copy
HostAttrs(attrs) == Update(attrs, [k \in {"friendly_name"} |-> "Light"])

\* what a light can report: on or off, with any of the six attributes
LightStates == {State(s, HostAttrs(attrs)) :
                    s \in {STATE_ON, STATE_OFF},
                    attrs \in AttrDicts(Range(SnapshotAttrs))}

LightOn == State(STATE_ON, HostAttrs([k \in {ATTR_BRIGHTNESS} |-> 1]))
LightOff == State(STATE_OFF, HostAttrs([k \in {ATTR_BRIGHTNESS} |-> 1]))
LightDim == State(STATE_ON, HostAttrs(EmptyDict))

SensorStates == {State(s, HostAttrs(EmptyDict)) : s \in {STATE_ON, STATE_OFF, STATE_UNAVAILABLE}}

SwitchState == State(STATE_ON, HostAttrs([k \in {ATTR_BRIGHTNESS} |-> 1]))

\* hass.states when the manager is constructed: each entity exists or not
Hosts == UNION {[D -> LightStates] : D \in SUBSET CallableIds}

\* the manager after __init__, under a configuration of Configs
InitManager ==
    /\ entry \in Configs
    /\ states = EmptyDict
    /\ motion_active = EmptyDict
    /\ cancel_save_interval = FALSE
    /\ setup_complete = FALSE
    /\ services = {}
    /\ listening = FALSE
    /\ timers = <<>>
    /\ unloaded = FALSE
    /\ ticks = 0
    /\ tasks = <<>>
    /\ last = [op |-> "init"]
    /\ fired = <<>>
    /\ called = <<>>

Init ==
    /\ InitManager
    /\ host \in Hosts

Next ==
    \/ async_setup
    \/ async_unload
    \/ \E entity_ids \in EntityIdLists : handle_save_state(entity_ids)
    \/ \E entity_ids \in EntityIdLists : handle_restore_state(entity_ids)
    \/ \E entity_ids \in EntityIdLists : handle_clear_states(entity_ids)
    \/ handle_interval_save
    \/ interval_fired
    \/ interval_task_run
    \/ \E k \in 1..MaxTasks : task_start(k)
    \/ \E k \in 1..MaxTasks : turn_on_done(k)
    \/ \E k \in 1..MaxTasks : turn_on_failed(k)
    \/ \E e \in Lights, ns \in LightStates \cup {None} : state_changed(e, ns)
    \/ \E e \in Sensors, ns \in SensorStates \cup {None} : state_changed(e, ns)

\* the whole system
Spec == Init /\ [][Next]_vars

----------------------------------------------------------------------------
(* The service interface of a manager set up with the default            *)
(* configuration: save, restore and clear over every list, the timer,    *)
(* the lights' state changes, one restore_state call in flight at a      *)
(* time.  The kitchen light is on, off or gone, the hall light on or gone.*)

InitStore ==
    /\ InitManager
    /\ entry = ConfigDefaults
    /\ host = [e \in {switch_x} |-> SwitchState]

NextStore ==
    \/ async_setup
    \/ \E entity_ids \in EntityIdLists : handle_save_state(entity_ids)
    \/ \E entity_ids \in EntityIdLists : tasks = <<>> /\ handle_restore_state(entity_ids)
    \/ \E entity_ids \in EntityIdLists : handle_clear_states(entity_ids)
    \/ handle_interval_save
    \/ \E k \in 1..MaxTasks : turn_on_done(k)
    \/ \E k \in 1..MaxTasks : turn_on_failed(k)
    \/ \E ns \in {LightOn, LightOff, None} : state_changed(light_kitchen, ns)
    \/ \E ns \in {LightOn, None} : state_changed(light_hall, ns)

SpecStore == InitStore /\ [][NextStore]_vars

----------------------------------------------------------------------------
(* The periodic timer under each configuration: setup, unload, timer     *)
(* ticks, saves and clears of the kitchen light and its state changes.   *)

InitTimer ==
    /\ InitManager
    /\ host = [e \in CallableIds |-> IF e = switch_x THEN SwitchState ELSE LightOn]

NextTimer ==
    \/ async_setup
    \/ async_unload
    \/ handle_interval_save
    \/ interval_fired
    \/ interval_task_run
    \/ \E entity_ids \in EntityIdLists : handle_save_state(entity_ids)
    \/ handle_clear_states(<<light_kitchen>>)
    \/ \E ns \in {LightOn, LightOff, None} : state_changed(light_kitchen, ns)

SpecTimer == InitTimer /\ [][NextTimer]_vars

----------------------------------------------------------------------------
(* Properties of save, restore and clear, checked under SpecStore *)

\* the steps in which a restore invocation runs part of its loop
RestoreOps == {SERVICE_RESTORE_STATE, "task_start", "turn_on_done"}

Indices(s) == 1..Len(s)

\* C2: every driver call is light.turn_on for an identifier whose stored
\* snapshot, as the call is issued, has state "on", and every restored
\* event carries a snapshot with state "on"; so a light saved while not
\* "on" gets no command and no restored event.  (A restore step leaves the
\* store alone, so the store of the state is the store the call was
\* issued from.)
C2_OnlyTurnOnToOnSnapshot ==
    /\ \A i \in Indices(called) :
        /\ called[i].domain = "light"
        /\ called[i].service = SERVICE_TURN_ON
        /\ called[i].service_data["entity_id"] \in DOMAIN states
        /\ states[called[i].service_data["entity_id"]]["state"] = STATE_ON
    /\ \A i \in Indices(fired) :
        fired[i].event_type = EVENT_STATE_RESTORED
            => fired[i].data.state["state"] = STATE_ON

\* a restore over <<kitchen, hall>> with the kitchen saved "off" and the
\* hall saved "on": the only call is for the hall
C2_Witness ==
    /\ last.op = SERVICE_RESTORE_STATE
    /\ last.entity_ids = <<light_kitchen, light_hall>>
    /\ light_kitchen \in DOMAIN states
    /\ states[light_kitchen]["state"] = STATE_OFF
    /\ Len(called) = 1
    /\ called[1].service_data["entity_id"] = light_hall

\* C3: a restore step never changes the store and issues no call for an
\* identifier without a snapshot; a restore_state call none of whose
\* identifiers has a snapshot issues no call, fires no event and leaves no
\* invocation behind; a restored event is only ever fired for the
\* identifier of the call being acknowledged; and after a clear none of
\* the cleared identifiers has a snapshot.
C3_RestoreWithoutSnapshotIsNoOp ==
    [][/\ last'.op \in RestoreOps =>
            /\ states' = states
            /\ \A i \in Indices(called') :
                called'[i].service_data["entity_id"] \in DOMAIN states
            /\ (/\ last'.op = SERVICE_RESTORE_STATE
                /\ \A e \in Range(last'.entity_ids) : e \notin DOMAIN states)
               => (called' = <<>> /\ fired' = <<>> /\ tasks' = tasks)
       /\ \A i \in Indices(fired') :
            fired'[i].event_type = EVENT_STATE_RESTORED =>
                /\ last'.op = "turn_on_done"
                /\ fired'[i].data.entity_id = last'.entity_id
                /\ \E k \in Indices(tasks) :
                    /\ tasks[k].status = "awaiting"
                    /\ tasks[k].entity_id = fired'[i].data.entity_id
                    /\ tasks[k].state_data = fired'[i].data.state
       /\ last'.op = SERVICE_CLEAR_STATES =>
            \A e \in Range(last'.entity_ids) : e \notin DOMAIN states'
      ]_vars

\* a restore over <<kitchen, hall>> where the kitchen has no snapshot and
\* the hall has one: the kitchen is passed over
C3_Witness ==
    /\ last.op = SERVICE_RESTORE_STATE
    /\ last.entity_ids = <<light_kitchen, light_hall>>
    /\ light_kitchen \notin DOMAIN states
    /\ Len(called) = 1
    /\ called[1].service_data["entity_id"] = light_hall
    /\ fired = <<>>

\* C4: every key of the store starts with "light.", and an entry written
\* by a step is the snapshot of the State the host reported at that step;
\* every saved event is for such an identifier.
C4_StoreMembership ==
    [][/\ \A e \in DOMAIN states' :
            /\ StartsWith(e, LightPrefix)
            /\ (e \notin DOMAIN states \/ states'[e] # states[e])
                => /\ e \in DOMAIN host
                   /\ states'[e]["state"] = host[e].state
       /\ \A i \in Indices(fired') :
            fired'[i].event_type = EVENT_STATE_SAVED
                => /\ StartsWith(fired'[i].data.entity_id, LightPrefix)
                   /\ fired'[i].data.entity_id \in DOMAIN host
      ]_vars

\* a save of the switch and of a light the host does not know stores
\* nothing and fires nothing
C4_Witness ==
    /\ last.op = SERVICE_SAVE_STATE
    /\ last.entity_ids = <<switch_x, light_hall>>
    /\ switch_x \in DOMAIN host
    /\ light_hall \notin DOMAIN host
    /\ states = EmptyDict
    /\ fired = <<>>

\* the identifiers of a list that the save loop does not skip
Savable(entity_ids) ==
    SelectSeq(entity_ids, LAMBDA e : StartsWith(e, LightPrefix) /\ e \in DOMAIN host)

\* C5: after a save over a list, every light of the list the host knows is
\* stored, wherever the skipped identifiers sit, and the saved events are
\* one per stored occurrence, in input order, each with the stored snapshot.
C5_SaveSkipsWithoutAborting ==
    last.op = SERVICE_SAVE_STATE =>
        LET ok == Savable(last.entity_ids)
        IN  /\ \A e \in Range(ok) :
                /\ e \in DOMAIN states
                /\ states[e]["state"] = host[e].state
            /\ Len(fired) = Len(ok)
            /\ \A i \in Indices(ok) :
                /\ fired[i].event_type = EVENT_STATE_SAVED
                /\ fired[i].data.entity_id = ok[i]
                /\ fired[i].data.state = states[ok[i]]

\* a save whose first identifier is skipped stores the second
C5_Witness ==
    /\ last.op = SERVICE_SAVE_STATE
    /\ last.entity_ids = <<switch_x, light_kitchen>>
    /\ light_kitchen \in DOMAIN states
    /\ Len(fired) = 1
    /\ fired[1].data.entity_id = light_kitchen

\* C8: with save_interval 0 no timer is ever registered and the store
\* changes only in save_state and clear_states service calls; with a
\* positive interval exactly one timer, of that interval, is registered
\* from setup to unload.
C8_NoTimerWhenIntervalZero ==
    [][/\ SaveIntervalConfigured = 0 =>
            /\ timers' = <<>>
            /\ states' # states => last'.op \in {SERVICE_SAVE_STATE, SERVICE_CLEAR_STATES}
       /\ (SaveIntervalConfigured > 0 /\ setup_complete' /\ ~unloaded')
            => (Len(timers') = 1 /\ timers'[1].interval = SaveIntervalConfigured)
      ]_vars

\* set up with save_interval 0, with a snapshot in the store
C8_Witness ==
    /\ SaveIntervalConfigured = 0
    /\ setup_complete
    /\ timers = <<>>
    /\ light_kitchen \in DOMAIN states
    /\ last.op = "state_changed"

\* the lifecycle state Ready: set up and not torn down
Ready == setup_complete /\ ~unloaded

\* the lights entry.data configures
ConfiguredLights == Get(entry, CONF_LIGHTS, <<>>)

\* C11: a run of the timer handler while the manager is not Ready (before
\* setup completes or after async_unload) changes nothing in the store and
\* fires no event; a run while Ready stores the host's state of every
\* configured light the host knows, fires one saved event for each, in
\* order, and touches no other snapshot; and once torn down the manager
\* is never Ready again.
C11_TickGatedByLifecycle ==
    [][/\ last'.op = "interval_save" =>
            IF Ready
            THEN LET ok == Savable(ConfiguredLights)
                 IN  /\ \A e \in Range(ok) :
                        /\ e \in DOMAIN states'
                        /\ states'[e] = get_light_state(host[e])
                     /\ \A e \in DOMAIN states' \ Range(ok) :
                        e \in DOMAIN states /\ states'[e] = states[e]
                     /\ DOMAIN states \subseteq DOMAIN states'
                     /\ Len(fired') = Len(ok)
                     /\ \A i \in Indices(ok) :
                        fired'[i] = Event(EVENT_STATE_SAVED, ok[i], states'[ok[i]])
            ELSE states' = states /\ fired' = <<>>
       /\ unloaded => ~Ready'
      ]_vars

\* the handler task of a tick fired before async_unload runs after it and
\* saves the kitchen light
C11_Witness ==
    /\ last.op = "interval_save"
    /\ unloaded
    /\ ticks = 0
    /\ timers = <<>>
    /\ Len(fired) = 1
    /\ fired[1] = Event(EVENT_STATE_SAVED, light_kitchen, states[light_kitchen])

----------------------------------------------------------------------------
(* One light that reports any of the six attributes: what a snapshot      *)
(* captures and what a restore sends.                                     *)

InitSnapshot ==
    /\ InitManager
    /\ host \in {[e \in {light_kitchen} |-> s] : s \in LightStates}

NextSnapshot ==
    \/ async_setup
    \/ handle_save_state(<<light_kitchen>>)
    \/ tasks = <<>> /\ handle_restore_state(<<light_kitchen>>)
    \/ handle_clear_states(<<light_kitchen>>)
    \/ turn_on_done(1)
    \/ turn_on_failed(1)
    \/ \E ns \in {LightOff, LightDim, None} : state_changed(light_kitchen, ns)

SpecSnapshot == InitSnapshot /\ [][NextSnapshot]_vars

\* the six attribute names
SnapshotAttrSet == Range(SnapshotAttrs)

\* C1: a save of a light the host reports stores its state and exactly
\* those of the six attributes the host reports, with their values; a
\* restore of a light whose snapshot says "on" issues exactly one
\* light.turn_on whose payload is entity_id, the configured transition and
\* the snapshot's attributes, and no other key.
C1_SaveRestoreRoundTrip ==
    /\ (last.op = SERVICE_SAVE_STATE /\ light_kitchen \in DOMAIN host) =>
        LET snap == states[light_kitchen]
            attrs == host[light_kitchen].attributes
        IN  /\ DOMAIN snap = {"state"} \cup (DOMAIN attrs \cap SnapshotAttrSet)
            /\ snap["state"] = host[light_kitchen].state
            /\ \A a \in DOMAIN snap \ {"state"} : snap[a] = attrs[a]
    /\ (/\ last.op = SERVICE_RESTORE_STATE
        /\ light_kitchen \in DOMAIN states
        /\ states[light_kitchen]["state"] = STATE_ON) =>
        LET snap == states[light_kitchen]
        IN  /\ Len(called) = 1
            /\ called[1].domain = "light"
            /\ called[1].service = SERVICE_TURN_ON
            /\ DOMAIN called[1].service_data
                   = {"entity_id", "transition"} \cup (DOMAIN snap \ {"state"})
            /\ called[1].service_data["entity_id"] = light_kitchen
            /\ called[1].service_data["transition"]
                   = IF CONF_TRANSITION \in DOMAIN entry THEN entry[CONF_TRANSITION]
                     ELSE DEFAULT_TRANSITION
            /\ \A a \in DOMAIN snap \ {"state"} : called[1].service_data[a] = snap[a]

\* a restore whose command carries brightness and effect and none of the
\* other four attributes, with the configured transition of 2
C1_Witness ==
    /\ last.op = SERVICE_RESTORE_STATE
    /\ Len(called) = 1
    /\ DOMAIN called[1].service_data
           = {"entity_id", "transition", ATTR_BRIGHTNESS, ATTR_EFFECT}
    /\ called[1].service_data["transition"] = 2
    /\ host = [e \in {light_kitchen} |->
                  State(STATE_ON, HostAttrs([a \in {ATTR_BRIGHTNESS, ATTR_EFFECT} |-> 1]))]

\* C7: what a restore_state call for the light does is a function of the
\* stored snapshot and the transition alone: a turn_on with the snapshot's
\* attributes when the snapshot says "on", nothing otherwise, whatever the
\* host reports for the light at that time.
C7_RestoreTrustsSnapshot ==
    last.op = SERVICE_RESTORE_STATE =>
        LET stored == light_kitchen \in DOMAIN states
            snap == states[light_kitchen]
        IN  IF stored /\ snap["state"] = STATE_ON
            THEN called = <<[domain |-> "light", service |-> SERVICE_TURN_ON,
                             service_data |->
                                 [k \in {"entity_id", "transition"} \cup (DOMAIN snap \ {"state"}) |->
                                     IF k = "entity_id" THEN light_kitchen
                                     ELSE IF k = "transition" THEN Transition
                                     ELSE snap[k]]]>>
            ELSE called = <<>>

\* saved while on with brightness, then turned off: the restore still
\* sends turn_on with the brightness
C7_Witness ==
    /\ last.op = SERVICE_RESTORE_STATE
    /\ light_kitchen \in DOMAIN host
    /\ host[light_kitchen].state = STATE_OFF
    /\ Len(called) = 1
    /\ ATTR_BRIGHTNESS \in DOMAIN called[1].service_data
    /\ called[1].service_data[ATTR_BRIGHTNESS] = 1

----------------------------------------------------------------------------
(* Motion: the state changes of three sensors, two of them configured,    *)
(* with both lights on and the restores the motion handler schedules.     *)

InitMotion ==
    /\ InitManager
    /\ host = [e \in CallableIds |-> IF e = switch_x THEN SwitchState ELSE LightOn]

NextMotion ==
    \/ async_setup
    \/ async_unload
    \/ handle_save_state(<<light_kitchen, light_hall>>)
    \/ handle_clear_states(<<light_kitchen>>)
    \/ \E k \in 1..MaxTasks : task_start(k)
    \/ \E k \in 1..MaxTasks : turn_on_done(k)
    \/ \E k \in 1..MaxTasks : turn_on_failed(k)
    \/ \E e \in Sensors, ns \in SensorStates \cup {None} : state_changed(e, ns)
    \/ \E ns \in {LightOn, LightOff} : state_changed(light_kitchen, ns)

SpecMotion == InitMotion /\ [][NextMotion]_vars

\* the motion sensors handle_motion was set up with
ConfiguredSensors == Range(Get(entry, CONF_MOTION_SENSORS, <<>>))

\* a state-change event reaches the listener
Notified(op) == op = "state_changed" /\ listening

\* C6: a state change of an entity that is not a configured motion sensor
\* changes neither the motion map nor the restore invocations, whatever
\* its new state and whatever the map holds.
C6_UnconfiguredSensorIgnored ==
    [][(last'.op = "state_changed" /\ last'.entity_id \notin ConfiguredSensors)
        => (motion_active' = motion_active /\ tasks' = tasks)]_vars

\* the unconfigured sensor turns on while a configured one is active
\* and a snapshot of the kitchen light is there to restore
C6_Witness ==
    /\ light_kitchen \in DOMAIN states
    /\ listening
    /\ last.op = "state_changed"
    /\ last.entity_id = sensor_c
    /\ last.new_state # None
    /\ last.new_state.state = STATE_ON
    /\ sensor_a \in DOMAIN motion_active
    /\ motion_active[sensor_a]
    /\ tasks = <<>>

\* C9: every state change of a configured sensor that carries a new state
\* schedules exactly one restore of the configured lights when a sensor is
\* active after the update, and none when no sensor is.
C9_NoDebounce ==
    [][(/\ Notified(last'.op)
        /\ last'.entity_id \in ConfiguredSensors
        /\ last'.new_state # None)
        => IF \E x \in DOMAIN motion_active' : motion_active'[x]
           THEN /\ Len(tasks') = Len(tasks) + 1
                /\ SubSeq(tasks', 1, Len(tasks)) = tasks
                /\ tasks'[Len(tasks')].status = "scheduled"
                /\ tasks'[Len(tasks')].rest = entry[CONF_LIGHTS]
           ELSE tasks' = tasks]_vars

\* sensor b turns on while a is active and the restore a scheduled has not
\* started: a second restore is scheduled
C9_Witness ==
    /\ last.op = "state_changed"
    /\ last.entity_id = sensor_b
    /\ last.new_state # None
    /\ last.new_state.state = STATE_ON
    /\ sensor_a \in DOMAIN motion_active
    /\ motion_active[sensor_a]
    /\ Len(tasks) = 2
    /\ tasks[1].status = "scheduled"
    /\ tasks[2].status = "scheduled"

\* whether a notification's new state reports "on"
ReportedOn(new_state) == new_state # None /\ new_state.state = STATE_ON

\* C10 as stated: after every notification of a configured sensor the
\* sensor's flag says whether that notification reported "on".
C10_FlagReflectsLastNotification ==
    [][(Notified(last'.op) /\ last'.entity_id \in ConfiguredSensors)
        => /\ last'.entity_id \in DOMAIN motion_active'
           /\ motion_active'[last'.entity_id] = ReportedOn(last'.new_state)]_vars

\* C10 amended: after a notification of a configured sensor that carries a
\* new state, the sensor's flag says whether it reported "on"; no other
\* step and no other notification writes the flag of a sensor, and no
\* entry is ever removed.
C10_FlagReflectsLastNewState ==
    [][/\ DOMAIN motion_active \subseteq DOMAIN motion_active'
       /\ \A x \in Sensors :
            IF /\ Notified(last'.op)
               /\ last'.entity_id = x
               /\ x \in ConfiguredSensors
               /\ last'.new_state # None
            THEN /\ x \in DOMAIN motion_active'
                 /\ motion_active'[x] = (last'.new_state.state = STATE_ON)
            ELSE /\ x \in DOMAIN motion_active' <=> x \in DOMAIN motion_active
                 /\ x \in DOMAIN motion_active => motion_active'[x] = motion_active[x]
      ]_vars

\* an active sensor is removed: the notification has no new state and the
\* flag stays
C10_Witness ==
    /\ listening
    /\ last.op = "state_changed"
    /\ last.entity_id = sensor_a
    /\ last.new_state = None
    /\ sensor_a \in DOMAIN motion_active
    /\ motion_active[sensor_a]

----------------------------------------------------------------------------
(* One restore_state invocation at a time, checked under SpecStore *)

\* C12: an invocation issues one turn_on at a time, in list order.  While
\* it waits for the acknowledgment of identifier i, a further turn_on is
\* issued only by the step that acknowledges i, which fires the restored
\* event of i (with the snapshot the command was built from) and then
\* issues the command of the next identifier the loop does not skip, taken
\* from the identifiers after i; the restored event of i is fired by no
\* other step; and the invocation ends only in a step that acknowledges
\* (or fails) its last command.
C12_RestoreSequential ==
    [][/\ Len(called') <= 1
       /\ (tasks # <<>> /\ tasks[1].status = "awaiting") =>
            LET t == tasks[1]
                acked == /\ last'.op = "turn_on_done"
                         /\ last'.entity_id = t.entity_id
                         /\ fired' = <<Event(EVENT_STATE_RESTORED, t.entity_id, t.state_data)>>
            IN  /\ called' # <<>> =>
                    /\ acked
                    /\ tasks' # <<>>
                    /\ tasks'[1].status = "awaiting"
                    /\ called'[1].service_data["entity_id"] = tasks'[1].entity_id
                    /\ \E j \in Indices(t.rest) :
                        /\ t.rest[j] = tasks'[1].entity_id
                        /\ tasks'[1].rest = After(t.rest, j)
                        /\ \A i \in 1..(j - 1) : RestoreSkips(states, t.rest[i])
                /\ (\E i \in Indices(fired') :
                        fired'[i].event_type = EVENT_STATE_RESTORED) => acked
                /\ tasks' # tasks => last'.op \in {"turn_on_done", "turn_on_failed"}
                /\ (tasks' = <<>> /\ last'.op = "turn_on_done") =>
                    /\ acked
                    /\ \A i \in Indices(t.rest) : RestoreSkips(states, t.rest[i])
       /\ (tasks = <<>> /\ called' # <<>>) =>
            /\ last'.op = SERVICE_RESTORE_STATE
            /\ fired' = <<>>
            /\ tasks' # <<>>
            /\ called'[1].service_data["entity_id"] = tasks'[1].entity_id
      ]_vars

\* the kitchen light's command is acknowledged: its restored event is
\* fired and the hall light's command is issued in the same step
C12_Witness ==
    /\ last.op = "turn_on_done"
    /\ last.entity_id = light_kitchen
    /\ Len(fired) = 1
    /\ fired[1].event_type = EVENT_STATE_RESTORED
    /\ fired[1].data.entity_id = light_kitchen
    /\ Len(called) = 1
    /\ called[1].service_data["entity_id"] = light_hall
    /\ Len(tasks) = 1
    /\ tasks[1].entity_id = light_hall
    /\ tasks[1].rest = <<>>

\* the attributes a turn_on call carries: its payload without entity_id
\* and transition
SentAttrs(call) ==
    [a \in DOMAIN call.service_data \ {"entity_id", "transition"} |->
        call.service_data[a]]

\* the attributes of a snapshot: its items without "state"
SnapshotSent(state_data) ==
    [a \in DOMAIN state_data \ {"state"} |-> state_data[a]]

\* C19: (a) the snapshot an invocation holds for the light it waits on is
\* the one its turn_on was built from, no save or clear during the wait
\* changes it, and the restored event carries it, whatever the store says
\* of that light by then; (b) the identifier taken next is judged against
\* the store of that moment: a command is issued only for an identifier
\* whose snapshot is then "on", with that snapshot's attributes, and none
\* is issued only when no remaining identifier has an "on" snapshot then.
C19_RestoreReadsStorePerIdentifier ==
    [][/\ called' # <<>> =>
            LET e == called'[1].service_data["entity_id"]
                t == tasks'[Len(tasks')]
            IN  /\ e \in DOMAIN states
                /\ states[e]["state"] = STATE_ON
                /\ SentAttrs(called'[1]) = SnapshotSent(states[e])
                /\ t.entity_id = e
                /\ t.state_data = states[e]
       /\ (tasks # <<>> /\ tasks[1].status = "awaiting") =>
            LET t == tasks[1]
            IN  /\ last'.op \notin {"turn_on_done", "turn_on_failed"} => tasks' = tasks
                /\ last'.op = "turn_on_done" =>
                    /\ fired' = <<Event(EVENT_STATE_RESTORED, t.entity_id, t.state_data)>>
                    /\ called' = <<>> =>
                        \A i \in Indices(t.rest) :
                            \/ t.rest[i] \notin DOMAIN states
                            \/ states[t.rest[i]]["state"] # STATE_ON
      ]_vars

\* the kitchen light was saved again, as "off", while its turn_on was
\* awaited: the restored event still carries the "on" snapshot with the
\* brightness that was sent, and the loop goes on to the hall light
C19_Witness ==
    /\ last.op = "turn_on_done"
    /\ last.entity_id = light_kitchen
    /\ Len(fired) = 1
    /\ fired[1].data.state = [k \in {"state", ATTR_BRIGHTNESS} |->
                                  IF k = "state" THEN STATE_ON ELSE 1]
    /\ light_kitchen \in DOMAIN states
    /\ states[light_kitchen]["state"] = STATE_OFF
    /\ Len(called) = 1
    /\ called[1].service_data["entity_id"] = light_hall

----------------------------------------------------------------------------
(* Restores in flight together, scheduled by motion, checked under        *)
(* SpecMotion                                                              *)

\* C13: when the turn_on an invocation awaits fails, the invocation ends
\* there: the step fires no event and issues no call, leaves the store and
\* the motion map as they were, and removes that invocation and no other;
\* and every call and restored event of any step belongs to an invocation
\* that is still there before the step, so an invocation that failed at i
\* neither retries i nor reaches the identifiers after i.
C13_FailureAbortsInvocation ==
    [][/\ last'.op = "turn_on_failed" =>
            /\ fired' = <<>>
            /\ called' = <<>>
            /\ states' = states
            /\ motion_active' = motion_active
            /\ \E k \in Indices(tasks) :
                /\ tasks[k].status = "awaiting"
                /\ tasks[k].entity_id = last'.entity_id
                /\ tasks' = RemoveAt(tasks, k)
       /\ called' # <<>> =>
            /\ Len(called') = 1
            /\ last'.op \in RestoreOps
            /\ last'.op # SERVICE_RESTORE_STATE =>
                \E k \in Indices(tasks) :
                    /\ called'[1].service_data["entity_id"] \in Range(tasks[k].rest)
                    /\ Len(tasks') >= k
                    /\ tasks'[k].status = "awaiting"
                    /\ tasks'[k].entity_id = called'[1].service_data["entity_id"]
                    /\ Len(tasks'[k].rest) < Len(tasks[k].rest)
       /\ \A i \in Indices(fired') :
            fired'[i].event_type = EVENT_STATE_RESTORED =>
                \E k \in Indices(tasks) :
                    /\ tasks[k].status = "awaiting"
                    /\ tasks[k].entity_id = fired'[i].data.entity_id
                    /\ last'.op = "turn_on_done"
      ]_vars

\* the only invocation fails at the kitchen light while the hall light has
\* an "on" snapshot and a sensor is active: the hall light gets no command
C13_Witness ==
    /\ last.op = "turn_on_failed"
    /\ last.entity_id = light_kitchen
    /\ tasks = <<>>
    /\ called = <<>>
    /\ fired = <<>>
    /\ light_hall \in DOMAIN states
    /\ states[light_hall]["state"] = STATE_ON
    /\ sensor_a \in DOMAIN motion_active
    /\ motion_active[sensor_a]

\* C14: however restore invocations interleave at their waits, the store
\* changes only in a step of save, clear or the timer's save, and the
\* motion map only in a state-change notification: no step of a restore
\* (its start, an acknowledgment, a failure) writes either mapping.
C14_RestoreNeverWrites ==
    [][/\ states' # states =>
            last'.op \in {SERVICE_SAVE_STATE, SERVICE_CLEAR_STATES, "interval_save"}
       /\ motion_active' # motion_active => last'.op = "state_changed"
       /\ last'.op \in RestoreOps \cup {"turn_on_failed"} =>
            (states' = states /\ motion_active' = motion_active)
      ]_vars

\* two invocations in flight, the first past the kitchen light and waiting
\* for the hall light, the second waiting for the kitchen light, with both
\* snapshots still in the store
C14_Witness ==
    /\ last.op = "turn_on_done"
    /\ Len(tasks) = 2
    /\ tasks[1].status = "awaiting"
    /\ tasks[1].entity_id = light_hall
    /\ tasks[2].status = "awaiting"
    /\ tasks[2].entity_id = light_kitchen
    /\ DOMAIN states = Lights
    /\ \E s \in DOMAIN motion_active : motion_active[s]

\* C15: a notification of a configured sensor that carries no new state
\* changes nothing: the motion map keeps every flag, no restore is
\* scheduled, no event is fired and no call issued, whatever the other
\* sensors' flags are.
C15_NoNewStateIgnored ==
    [][(/\ Notified(last'.op)
        /\ last'.entity_id \in ConfiguredSensors
        /\ last'.new_state = None)
        => /\ motion_active' = motion_active
           /\ tasks' = tasks
           /\ states' = states
           /\ fired' = <<>>
           /\ called' = <<>>]_vars

\* sensor b, known as inactive, is removed while sensor a is active and
\* the lights have snapshots: b's flag stays and no restore is scheduled
C15_Witness ==
    /\ listening
    /\ last.op = "state_changed"
    /\ last.entity_id = sensor_b
    /\ last.new_state = None
    /\ sensor_b \in DOMAIN motion_active
    /\ ~motion_active[sensor_b]
    /\ sensor_a \in DOMAIN motion_active
    /\ motion_active[sensor_a]
    /\ DOMAIN states = Lights
    /\ tasks = <<>>

----------------------------------------------------------------------------
(* The store as a cache: saves and clears over every list, the timer's    *)
(* save, one restore of both lights in flight, a kitchen light whose      *)
(* attributes come and go, and a sensor that keeps the motion map filled. *)

SensorOff == State(STATE_OFF, HostAttrs(EmptyDict))

InitCache ==
    /\ InitManager
    /\ entry \in {ConfigDefaults, ConfigMotion}
    /\ host = [e \in {switch_x} |-> SwitchState]

NextCache ==
    \/ async_setup
    \/ \E entity_ids \in EntityIdLists : handle_save_state(entity_ids)
    \/ \E entity_ids \in EntityIdLists : handle_clear_states(entity_ids)
    \/ tasks = <<>> /\ handle_restore_state(<<light_kitchen, light_hall>>)
    \/ handle_interval_save
    \/ turn_on_done(1)
    \/ turn_on_failed(1)
    \/ \E ns \in {LightOn, LightDim, LightOff, None} : state_changed(light_kitchen, ns)
    \/ state_changed(light_hall, LightOn)
    \/ \E ns \in {SensorOff, None} : state_changed(sensor_a, ns)

SpecCache == InitCache /\ [][NextCache]_vars

\* C16: the store follows the last save or clear of each identifier.  A
\* save_state call, or a run of the timer handler, stores for every light
\* of its list that the host knows exactly the host's state of that moment
\* and those of the six attributes the host reports then (nothing of an
\* earlier snapshot is kept); a clear removes the listed identifiers; and
\* in every step an identifier that is neither saved nor cleared by the
\* step is in the store as before, with the snapshot it had.
C16_LastSaveWins ==
    [][LET saved == IF last'.op = SERVICE_SAVE_STATE
                    THEN Range(Savable(last'.entity_ids))
                    ELSE IF last'.op = "interval_save" /\ setup_complete
                    THEN Range(Savable(ConfiguredLights))
                    ELSE {}
           cleared == IF last'.op = SERVICE_CLEAR_STATES
                      THEN Range(last'.entity_ids)
                      ELSE {}
       IN  /\ DOMAIN states' \subseteq CallableIds
           /\ \A L \in CallableIds :
                IF L \in saved
                THEN /\ L \in DOMAIN states'
                     /\ DOMAIN states'[L]
                            = {"state"} \cup (DOMAIN host[L].attributes \cap SnapshotAttrSet)
                     /\ states'[L]["state"] = host[L].state
                     /\ \A a \in DOMAIN states'[L] \ {"state"} :
                            states'[L][a] = host[L].attributes[a]
                ELSE IF L \in cleared
                THEN L \notin DOMAIN states'
                ELSE /\ L \in DOMAIN states' <=> L \in DOMAIN states
                     /\ L \in DOMAIN states => states'[L] = states[L]
      ]_vars

\* the kitchen light was saved with brightness (the restore in flight
\* still holds that snapshot) and saved again after it stopped reporting
\* brightness: the stored snapshot has the state alone
C16_Witness ==
    /\ last.op = SERVICE_SAVE_STATE
    /\ light_kitchen \in Range(last.entity_ids)
    /\ Len(tasks) = 1
    /\ tasks[1].entity_id = light_kitchen
    /\ ATTR_BRIGHTNESS \in DOMAIN tasks[1].state_data
    /\ light_kitchen \in DOMAIN states
    /\ states[light_kitchen] = [k \in {"state"} |-> STATE_ON]

\* C17: a clear over a list removes exactly the listed identifiers that
\* have a snapshot and keeps every other snapshot as it is; it leaves the
\* motion map and the restores in flight alone, fires no event and issues
\* no call; and clearing the same list again changes nothing.
C17_ClearIsInvalidation ==
    [][last'.op = SERVICE_CLEAR_STATES =>
        /\ DOMAIN states' = DOMAIN states \ Range(last'.entity_ids)
        /\ \A e \in DOMAIN states' : states'[e] = states[e]
        /\ motion_active' = motion_active
        /\ tasks' = tasks
        /\ fired' = <<>>
        /\ called' = <<>>
        /\ (last.op = SERVICE_CLEAR_STATES /\ last.entity_ids = last'.entity_ids)
            => states' = states
      ]_vars

\* a clear of the switch (never stored) and the kitchen light, whose
\* snapshot a restore in flight still holds: the hall light's snapshot
\* stays and the motion map keeps its entry
C17_Witness ==
    /\ last.op = SERVICE_CLEAR_STATES
    /\ last.entity_ids = <<switch_x, light_kitchen>>
    /\ Len(tasks) = 1
    /\ tasks[1].entity_id = light_kitchen
    /\ DOMAIN states = {light_hall}
    /\ DOMAIN motion_active = {sensor_a}

\* C18: async_unload leaves the restore invocations as they are: the step
\* removes the three services and the timer and changes nothing else of
\* the manager; and an acknowledgment that arrives after it is handled as
\* before it: the restored event is fired, the command of the next
\* identifier with an "on" snapshot is issued (none when there is none),
\* and the store and the motion map stay as they are.
C18_UnloadKeepsRestores ==
    [][/\ last'.op = "async_unload" =>
            /\ tasks' = tasks
            /\ states' = states
            /\ motion_active' = motion_active
            /\ listening' = listening
            /\ setup_complete' = setup_complete
            /\ timers' = <<>>
            /\ services' = services \ {SERVICE_SAVE_STATE, SERVICE_RESTORE_STATE,
                                       SERVICE_CLEAR_STATES}
            /\ fired' = <<>>
            /\ called' = <<>>
       /\ (unloaded /\ last'.op = "turn_on_done") =>
            /\ states' = states
            /\ motion_active' = motion_active
            /\ \E k \in Indices(tasks) :
                LET t == tasks[k]
                    on == {i \in Indices(t.rest) :
                              /\ t.rest[i] \in DOMAIN states
                              /\ states[t.rest[i]]["state"] = STATE_ON}
                IN  /\ t.status = "awaiting"
                    /\ t.entity_id = last'.entity_id
                    /\ fired' = <<Event(EVENT_STATE_RESTORED, t.entity_id, t.state_data)>>
                    /\ IF on = {}
                       THEN called' = <<>> /\ tasks' = RemoveAt(tasks, k)
                       ELSE /\ Len(called') = 1
                            /\ \E i \in on :
                                /\ \A j \in on : i <= j
                                /\ called'[1].service_data["entity_id"] = t.rest[i]
                                /\ tasks'[k].entity_id = t.rest[i]
      ]_vars

\* after async_unload the kitchen light's command is acknowledged: the
\* restored event is fired and the hall light's command is issued
C18_Witness ==
    /\ unloaded
    /\ services = {}
    /\ last.op = "turn_on_done"
    /\ last.entity_id = light_kitchen
    /\ Len(fired) = 1
    /\ fired[1].event_type = EVENT_STATE_RESTORED
    /\ Len(called) = 1
    /\ called[1].service_data["entity_id"] = light_hall

----------------------------------------------------------------------------
(* Termination of a restore.  A restore_state call over the hall and the  *)
(* kitchen light runs among the restores that motion schedules over the   *)
(* configured lights (kitchen, hall), saves, clears and notifications.    *)
(* The event loop runs every task that is ready and the driver answers    *)
(* every command: each invocation in flight takes its next step.          *)

SensorOn == State(STATE_ON, HostAttrs(EmptyDict))

\* the list of the restore_state call that is followed to its end
TrackedList == <<light_hall, light_kitchen>>

\* the invocation over TrackedList is suspended: it waits for the hall
\* light with the kitchen light to come, or for the kitchen light at the
\* end of its list (a restore over the configured lights never does)
Tracked(t) ==
    /\ t.status = "awaiting"
    /\ \/ t.entity_id = light_hall /\ t.rest = <<light_kitchen>>
       \/ t.entity_id = light_kitchen /\ t.rest = <<>>

TrackedInFlight == \E k \in Indices(tasks) : Tracked(tasks[k])

InitFair ==
    /\ InitManager
    /\ entry = ConfigMotion
    /\ host = [e \in CallableIds |-> IF e = switch_x THEN SwitchState ELSE LightOn]

NextFair ==
    \/ async_setup
    \/ handle_save_state(<<light_kitchen, light_hall>>)
    \/ handle_clear_states(<<light_kitchen>>)
    \/ ~TrackedInFlight /\ handle_restore_state(TrackedList)
    \/ \E k \in 1..MaxTasks : task_start(k)
    \/ \E k \in 1..MaxTasks : turn_on_done(k)
    \/ \E k \in 1..MaxTasks : turn_on_failed(k)
    \/ \E ns \in {SensorOn, SensorOff} : state_changed(sensor_a, ns)

\* every invocation in flight is started when scheduled and gets the
\* answer, acknowledgment or failure, to the turn_on it awaits
Fairness ==
    \A k \in 1..MaxTasks :
        WF_vars(task_start(k) \/ turn_on_done(k) \/ turn_on_failed(k))

SpecFair == InitFair /\ [][NextFair]_vars /\ Fairness

\* C20: the restore_state call over TrackedList, once suspended, comes to
\* its end, whatever else runs in between; and every turn_on of any
\* invocation takes one occurrence of an identifier from the list the
\* invocation has yet to process, which gets strictly shorter: no more
\* commands than occurrences.
C20_RestoreTerminates ==
    /\ TrackedInFlight ~> ~TrackedInFlight
    /\ [][called' # <<>> =>
            /\ Len(called') = 1
            /\ LET e == called'[1].service_data["entity_id"]
               IN  IF last'.op = SERVICE_RESTORE_STATE
                   THEN /\ Len(tasks') = Len(tasks) + 1
                        /\ \E j \in Indices(last'.entity_ids) :
                            /\ last'.entity_ids[j] = e
                            /\ tasks'[Len(tasks')].rest = After(last'.entity_ids, j)
                   ELSE \E k \in Indices(tasks) :
                            /\ Len(tasks') = Len(tasks)
                            /\ \A i \in Indices(tasks) \ {k} : tasks'[i] = tasks[i]
                            /\ \E j \in Indices(tasks[k].rest) :
                                /\ tasks[k].rest[j] = e
                                /\ tasks'[k].rest = After(tasks[k].rest, j)
         ]_vars

\* the call over TrackedList ends with the acknowledgment of the kitchen
\* light while a restore scheduled by motion is still in flight
C20_Witness ==
    /\ last.op = "turn_on_done"
    /\ last.entity_id = light_kitchen
    /\ called = <<>>
    /\ Len(fired) = 1
    /\ fired[1].data.entity_id = light_kitchen
    /\ light_hall \in DOMAIN states
    /\ tasks # <<>>
    /\ ~TrackedInFlight
============================================================================
